---------------------------- MODULE Spec2Model ----------------------------
(***************************************************************************)
(* A model of kindlr's clippings parser (src/src/parser.rs).               *)
(*                                                                         *)
(* Text is a sequence of characters, each character a one-character        *)
(* string.  The regular expressions of the parser are kept as data (a      *)
(* sequence of items) and run by a small backtracking matcher with the     *)
(* leftmost-first semantics of the regex crate, so that greedy and lazy    *)
(* repetition, anchors and capture groups behave as they do in the code.   *)
(***************************************************************************)
EXTENDS Integers, Sequences, FiniteSets, TLC

(***************************************************************************)
(* Characters and the std string functions the parser calls.               *)
(***************************************************************************)

\* The ASCII digits, in order: AsciiDigits[d + 1] is the digit of value d.
AsciiDigits == <<"0","1","2","3","4","5","6","7","8","9">>

IsAsciiDigit(ch) == \E d \in 1..Len(AsciiDigits) : AsciiDigits[d] = ch

\* A decimal digit outside ASCII (ARABIC-INDIC DIGIT THREE): \d of the regex
\* crate is Unicode-aware and matches it, u32::from_str does not accept it.
ArabicIndicThree == "U+0663"

IsDigit(ch) == IsAsciiDigit(ch) \/ ch = ArabicIndicThree

\* char::is_whitespace, restricted to the characters the model writes.
IsWhite(ch) == ch \in {" ", "\t", "\n", "\r"}

\* str::trim().is_empty()
IsBlank(s) == \A i \in 1..Len(s) : IsWhite(s[i])

\* The least element of a non-empty set of integers.
Min(S) == CHOOSE x \in S : \A y \in S : x <= y

Max(S) == CHOOSE x \in S : \A y \in S : y <= x

\* str::trim: the text between its first and its last non-whitespace
\* character.
Trim(s) ==
    LET inked == {i \in 1..Len(s) : ~IsWhite(s[i])}
    IN  IF inked = {} THEN <<>> ELSE SubSeq(s, Min(inked), Max(inked))

\* Whether the literal lit stands in s at position i.
HasPrefixAt(s, i, lit) ==
    /\ i + Len(lit) - 1 <= Len(s)
    /\ \A j \in 1..Len(lit) : s[i + j - 1] = lit[j]

\* The start positions of the occurrences of sep that str::split cuts at:
\* the leftmost occurrence at or after i, then the leftmost after its end.
RECURSIVE CutsFrom(_, _, _)
CutsFrom(s, sep, i) ==
    LET occ == {j \in i..Len(s) : HasPrefixAt(s, j, sep)}
    IN  IF occ = {} THEN <<>>
        ELSE << Min(occ) >> \o CutsFrom(s, sep, Min(occ) + Len(sep))

Cuts(s, sep) == CutsFrom(s, sep, 1)

\* str::split(sep): the pieces between the leftmost, non-overlapping
\* occurrences of sep; n occurrences give n + 1 pieces.
Split(s, sep) ==
    LET cuts == Cuts(s, sep)
        n == Len(cuts)
    IN  [k \in 1..(n + 1) |->
            SubSeq(s,
                   IF k = 1 THEN 1 ELSE cuts[k - 1] + Len(sep),
                   IF k = n + 1 THEN Len(s) ELSE cuts[k] - 1)]

\* One line of str::lines: a carriage return before the line feed belongs
\* to the line ending.
StripCr(l) ==
    IF l # <<>> /\ l[Len(l)] = "\r" THEN SubSeq(l, 1, Len(l) - 1) ELSE l

\* str::lines: the text cut at every "\n"; a final empty line is not a line,
\* and a last line that no "\n" ends is kept as it is.
Lines(s) ==
    LET parts == Split(s, <<"\n">>)
        n == Len(parts)
        kept == IF parts[n] = <<>> THEN n - 1 ELSE n
    IN  [k \in 1..kept |-> IF k < n THEN StripCr(parts[k]) ELSE parts[k]]

\* text.lines().filter(|line| !line.trim().is_empty())
NonBlankLines(text) == SelectSeq(Lines(text), LAMBDA l : ~IsBlank(l))

(***************************************************************************)
(* u32 values.  A value is kept as its decimal digits without leading      *)
(* zeros, so that the whole 32-bit range is there: the largest is          *)
(* 4294967295.                                                             *)
(***************************************************************************)

U32MaxDigits == <<"4","2","9","4","9","6","7","2","9","5">>

DigitVal(ch) == CHOOSE d \in 0..9 : AsciiDigits[d + 1] = ch

RECURSIVE StripZeros(_)
StripZeros(ds) ==
    IF Len(ds) > 1 /\ Head(ds) = "0" THEN StripZeros(Tail(ds)) ELSE ds

\* a <= b for two digit sequences of the same length
RECURSIVE DigitsLeq(_, _)
DigitsLeq(a, b) ==
    IF a = <<>> THEN TRUE
    ELSE IF DigitVal(Head(a)) < DigitVal(Head(b)) THEN TRUE
    ELSE IF DigitVal(Head(a)) > DigitVal(Head(b)) THEN FALSE
    ELSE DigitsLeq(Tail(a), Tail(b))

FitsU32(ds) ==
    LET n == StripZeros(ds)
    IN  \/ Len(n) < Len(U32MaxDigits)
        \/ Len(n) = Len(U32MaxDigits) /\ DigitsLeq(n, U32MaxDigits)

\* str::parse::<u32>() of a non-empty run of \d characters: an error for a
\* digit outside ASCII (InvalidDigit) and for a value above u32::MAX
\* (PosOverflow).
ParseU32(ds) ==
    IF \E i \in 1..Len(ds) : ~IsAsciiDigit(ds[i]) THEN [ok |-> FALSE]
    ELSE IF ~FitsU32(ds) THEN [ok |-> FALSE]
    ELSE [ok |-> TRUE, val |-> StripZeros(ds)]

(***************************************************************************)
(* The regular expressions, as data, and Regex::captures.                  *)
(***************************************************************************)

Lit(s) == [t |-> "lit", s |-> s]
\* (?:a|b|c): the alternatives in the order written
Alt(alts) == [t |-> "alt", alts |-> alts]
\* c{min,max}, greedy
Rep(c, min, max) == [t |-> "rep", c |-> c, min |-> min, capped |-> TRUE, max |-> max, lazy |-> FALSE]
\* c+, greedy
Plus(c) == [t |-> "rep", c |-> c, min |-> 1, capped |-> FALSE, max |-> 1, lazy |-> FALSE]
\* c+?, lazy
PlusLazy(c) == [t |-> "rep", c |-> c, min |-> 1, capped |-> FALSE, max |-> 1, lazy |-> TRUE]
Open(g) == [t |-> "open", g |-> g]
Close(g) == [t |-> "close", g |-> g]
Bol == [t |-> "bol"]
Eol == [t |-> "eol"]

\* \d, \s and . (any character but a line feed)
InClass(c, ch) ==
    CASE c = "digit" -> IsDigit(ch)
      [] c = "space" -> IsWhite(ch)
      [] c = "any"   -> ch # "\n"

\* How many characters of class c stand at position i, counted up to cap.
Run(s, i, c, cap) ==
    LET stop == {j \in i..(Len(s) + 1) : j > Len(s) \/ ~InClass(c, s[j])}
        n == Min(stop) - i
    IN  IF n > cap THEN cap ELSE n

NoMatch == [ok |-> FALSE]

NoCaps == << <<0, 0>>, <<0, 0>> >>

\* The backtracking match of items k.. of pat at position i of s: the first
\* match in priority order (a greedy repetition tries its longest run first,
\* a lazy one its shortest; alternatives are tried in the order written).
RECURSIVE MatchFrom(_, _, _, _, _)
RECURSIVE TryCounts(_, _, _, _, _, _, _)
RECURSIVE TryAlts(_, _, _, _, _, _)

TryCounts(pat, k, s, i, caps, n, last) ==
    LET m == MatchFrom(pat, k + 1, s, i + n, caps)
    IN  IF m.ok THEN m
        ELSE IF n = last THEN NoMatch
        ELSE TryCounts(pat, k, s, i, caps, IF n < last THEN n + 1 ELSE n - 1, last)

TryAlts(pat, k, s, i, caps, a) ==
    IF a > Len(pat[k].alts) THEN NoMatch
    ELSE LET lit == pat[k].alts[a]
             m == IF HasPrefixAt(s, i, lit)
                  THEN MatchFrom(pat, k + 1, s, i + Len(lit), caps)
                  ELSE NoMatch
         IN  IF m.ok THEN m ELSE TryAlts(pat, k, s, i, caps, a + 1)

MatchFrom(pat, k, s, i, caps) ==
    IF k > Len(pat) THEN [ok |-> TRUE, caps |-> caps]
    ELSE LET it == pat[k]
         IN  CASE it.t = "lit" ->
                    IF HasPrefixAt(s, i, it.s)
                    THEN MatchFrom(pat, k + 1, s, i + Len(it.s), caps)
                    ELSE NoMatch
               [] it.t = "alt" -> TryAlts(pat, k, s, i, caps, 1)
               [] it.t = "rep" ->
                    LET r == Run(s, i, it.c, IF it.capped THEN it.max ELSE Len(s))
                    IN  IF r < it.min THEN NoMatch
                        ELSE IF it.lazy
                             THEN TryCounts(pat, k, s, i, caps, it.min, r)
                             ELSE TryCounts(pat, k, s, i, caps, r, it.min)
               [] it.t = "open" ->
                    MatchFrom(pat, k + 1, s, i, [caps EXCEPT ![it.g] = <<i, i>>])
               [] it.t = "close" ->
                    MatchFrom(pat, k + 1, s, i, [caps EXCEPT ![it.g] = <<@[1], i>>])
               [] it.t = "bol" ->
                    IF i = 1 THEN MatchFrom(pat, k + 1, s, i, caps) ELSE NoMatch
               [] it.t = "eol" ->
                    IF i = Len(s) + 1 THEN MatchFrom(pat, k + 1, s, i, caps) ELSE NoMatch

\* Regex::captures: the match at the leftmost position that has one.
Captures(pat, s) ==
    LET starts == {i \in 1..(Len(s) + 1) : MatchFrom(pat, 1, s, i, NoCaps).ok}
    IN  IF starts = {} THEN NoMatch ELSE MatchFrom(pat, 1, s, Min(starts), NoCaps)

\* caps[g]: the text of capture group g
Group(s, m, g) == SubSeq(s, m.caps[g][1], m.caps[g][2] - 1)

(***************************************************************************)
(* The keywords of the parser.                                             *)
(***************************************************************************)

SEPARATOR == <<"=","=","=","=","=","=","=","=","=","=">>

KwHighlight == <<"H","i","g","h","l","i","g","h","t">>
KwNote == <<"N","o","t","e">>
KwBookmark == <<"B","o","o","k","m","a","r","k">>

DayNames ==
    << <<"M","o","n","d","a","y">>, <<"T","u","e","s","d","a","y">>,
       <<"W","e","d","n","e","s","d","a","y">>, <<"T","h","u","r","s","d","a","y">>,
       <<"F","r","i","d","a","y">>, <<"S","a","t","u","r","d","a","y">>,
       <<"S","u","n","d","a","y">> >>

MonthNames ==
    << <<"J","a","n","u","a","r","y">>, <<"F","e","b","r","u","a","r","y">>,
       <<"M","a","r","c","h">>, <<"A","p","r","i","l">>, <<"M","a","y">>,
       <<"J","u","n","e">>, <<"J","u","l","y">>, <<"A","u","g","u","s","t">>,
       <<"S","e","p","t","e","m","b","e","r">>, <<"O","c","t","o","b","e","r">>,
       <<"N","o","v","e","m","b","e","r">>, <<"D","e","c","e","m","b","e","r">> >>

(***************************************************************************)
(* Values: Option, Result and the parser's types.                          *)
(***************************************************************************)

None == [some |-> FALSE]
Some(v) == [some |-> TRUE, val |-> v]

\* Ok(v), Err(ParseError) and the abort of a panicking unwrap()
Ok(v) == [tag |-> "Ok", val |-> v]
Err(e) == [tag |-> "Err", err |-> e]
Panic == [tag |-> "Panic"]

\* ParseError::InvalidFormat(format!("<what>: {}", line))
InvalidFormat(what, line) == [variant |-> "InvalidFormat", what |-> what, line |-> line]
\* ParseError::MissingField(field)
MissingField(field) == [variant |-> "MissingField", what |-> field]

\* <ClippingType as FromStr>::from_str
ClippingTypeFromStr(s) ==
    CASE s = KwHighlight -> Some("Highlight")
      [] s = KwNote      -> Some("Note")
      [] s = KwBookmark  -> Some("Bookmark")
      [] OTHER           -> None

\* <Weekday as FromStr>::from_str: the enum value is named by its index in DayNames
WeekdayFromStr(s) ==
    IF \E d \in 1..Len(DayNames) : DayNames[d] = s
    THEN Some(CHOOSE d \in 1..Len(DayNames) : DayNames[d] = s)
    ELSE None

(***************************************************************************)
(* The patterns.  groups is the number of capture groups, so that          *)
(* caps.len() is groups + 1.                                               *)
(***************************************************************************)

\* ^(.+?) \((.+)\)$ : the pattern with one literal space where the code has
\* \s+, the fault of a pattern written for the sample line only.
TitleAuthorPatternOneSpace ==
    << Bol, Open(1), PlusLazy("any"), Close(1), Lit(<<" ">>), Lit(<<"(">>),
       Open(2), Plus("any"), Close(2), Lit(<<")">>), Eol >>

\* ^(.+?)\s+\((.+)\)$
TitleAuthorPattern ==
    << Bol, Open(1), PlusLazy("any"), Close(1), Plus("space"), Lit(<<"(">>),
       Open(2), Plus("any"), Close(2), Lit(<<")">>), Eol >>

\* (Bookmark|Highlight|Note)
TypePatterns ==
    << [items |-> << Open(1), Alt(<<KwBookmark, KwHighlight, KwNote>>), Close(1) >>,
        groups |-> 1] >>

\* page (\d+)
PagePatterns ==
    << [items |-> << Lit(<<"p","a","g","e"," ">>), Open(1), Plus("digit"), Close(1) >>,
        groups |-> 1] >>

\* Location (\d+)-(\d+)   and then   Location (\d+)
LocationPatterns ==
    << [items |-> << Lit(<<"L","o","c","a","t","i","o","n"," ">>), Open(1), Plus("digit"),
                     Close(1), Lit(<<"-">>), Open(2), Plus("digit"), Close(2) >>,
        groups |-> 2],
       [items |-> << Lit(<<"L","o","c","a","t","i","o","n"," ">>), Open(1), Plus("digit"),
                     Close(1) >>,
        groups |-> 1] >>

\* Added on (Monday|Tuesday|Wednesday|Thursday|Friday|Saturday|Sunday)
WeekdayPatterns ==
    << [items |-> << Lit(<<"A","d","d","e","d"," ","o","n"," ">>), Open(1), Alt(DayNames),
                     Close(1) >>,
        groups |-> 1] >>

\* (\d{1,2}\s+(?:January|...|December)\s+\d{4}\s+\d{1,2}:\d{2}:\d{2})
DatetimePatterns ==
    << [items |-> << Open(1), Rep("digit", 1, 2), Plus("space"), Alt(MonthNames),
                     Plus("space"), Rep("digit", 4, 4), Plus("space"), Rep("digit", 1, 2),
                     Lit(<<":">>), Rep("digit", 2, 2), Lit(<<":">>), Rep("digit", 2, 2),
                     Close(1) >>,
        groups |-> 1] >>

(***************************************************************************)
(* The field extractors.  Each walks its patterns with find_map: the first *)
(* pattern whose closure returns Some decides, and unwrap_or_else supplies *)
(* the error when none does.                                               *)
(***************************************************************************)

\* A closure's "skip this pattern" (None of the Option find_map looks at)
Skip == [tag |-> "Skip"]

\* find_map(closure).unwrap_or_else(otherwise) over the closure's answers,
\* one per pattern in the order of the list: the first that is not Skip.
FindMap(answers, otherwise) ==
    LET hits == {p \in 1..Len(answers) : answers[p].tag # "Skip"}
    IN  IF hits = {} THEN otherwise ELSE answers[Min(hits)]

ParseTitleAndAuthor(line) ==
    LET m == Captures(TitleAuthorPattern, line)
    IN  IF m.ok
        THEN Ok([title |-> Trim(Group(line, m, 1)), author |-> Trim(Group(line, m, 2))])
        ELSE Err(InvalidFormat("Expected 'Title (Author)' format, got", line))

TypeClosure(pat, line) ==
    LET m == Captures(pat.items, line) IN
    IF m.ok
    THEN IF pat.groups + 1 = 2
         THEN LET t == ClippingTypeFromStr(Group(line, m, 1))
              IN  IF t.some THEN Ok(t.val) ELSE Skip
         ELSE Skip
    ELSE Skip

ParseType(line) ==
    FindMap([p \in 1..Len(TypePatterns) |-> TypeClosure(TypePatterns[p], line)],
            Err(InvalidFormat("Failed to parse clipping type", line)))

PageClosure(pat, line) ==
    LET m == Captures(pat.items, line) IN
    IF m.ok
    THEN IF pat.groups + 1 = 2
         THEN LET n == ParseU32(Group(line, m, 1))
              IN  IF n.ok THEN Ok(Some(n.val)) ELSE Panic
         ELSE Skip
    ELSE Skip

ParsePage(line) ==
    FindMap([p \in 1..Len(PagePatterns) |-> PageClosure(PagePatterns[p], line)],
            Err(InvalidFormat("Failed to parse page", line)))

LocationClosure(pat, line) ==
    LET m == Captures(pat.items, line) IN
    IF m.ok
    THEN CASE pat.groups + 1 = 3 ->
                LET a == ParseU32(Group(line, m, 1))
                    b == ParseU32(Group(line, m, 2))
                IN  IF ~a.ok THEN Panic
                    ELSE IF ~b.ok THEN Panic
                    ELSE Ok([start |-> a.val, end |-> Some(b.val)])
           [] pat.groups + 1 = 2 ->
                LET a == ParseU32(Group(line, m, 1))
                IN  IF ~a.ok THEN Panic
                    ELSE Ok([start |-> a.val, end |-> None])
           [] OTHER -> Skip
    ELSE Skip

ParseLocation(line) ==
    FindMap([p \in 1..Len(LocationPatterns) |-> LocationClosure(LocationPatterns[p], line)],
            Err(InvalidFormat("Failed to parse location", line)))

WeekdayClosure(pat, line) ==
    LET m == Captures(pat.items, line) IN
    IF m.ok
    THEN IF pat.groups + 1 = 2
         THEN LET d == WeekdayFromStr(Group(line, m, 1))
              IN  IF d.some THEN Ok(d.val) ELSE Skip
         ELSE Skip
    ELSE Skip

ParseWeekday(line) ==
    FindMap([p \in 1..Len(WeekdayPatterns) |-> WeekdayClosure(WeekdayPatterns[p], line)],
            Err(InvalidFormat("Failed to parse weekday", line)))

DatetimeClosure(pat, line) ==
    LET m == Captures(pat.items, line) IN
    IF m.ok
    THEN IF pat.groups + 1 = 2 THEN Ok(Group(line, m, 1)) ELSE Skip
    ELSE Skip

ParseDatetime(line) ==
    FindMap([p \in 1..Len(DatetimePatterns) |-> DatetimeClosure(DatetimePatterns[p], line)],
            Err(InvalidFormat("Failed to parse datetime", line)))

(***************************************************************************)
(* Clipping::from_text                                                     *)
(***************************************************************************)

\* The content taken from the third line whatever the kind is: the fault of
\* a build that forgets the Bookmark case.
ParseContentAnyKind(clipping_type, lines) ==
    IF Len(lines) >= 3 THEN Ok(Some(lines[3]))
    ELSE IF clipping_type = "Bookmark" THEN Ok(None)
    ELSE Err(MissingField("content"))

\* The content of the entry: none for a Bookmark, else the next non-blank
\* line, whose absence is an error.
ParseContent(clipping_type, lines) ==
    IF clipping_type = "Bookmark" THEN Ok(None)
    ELSE IF Len(lines) < 3 THEN Err(MissingField("content"))
    ELSE Ok(Some(lines[3]))

\* The metadata extractors in the order the code calls them; the first that
\* does not return Ok ends the build with its outcome (the ? operator, or
\* the panic).
FromMetadata(ta, lines) ==
    LET second_line == lines[2]
        clipping_type == ParseType(second_line)
        page == ParsePage(second_line)
        location == ParseLocation(second_line)
        weekday == ParseWeekday(second_line)
        datetime == ParseDatetime(second_line)
        content == ParseContent(clipping_type.val, lines)
    IN  IF clipping_type.tag # "Ok" THEN clipping_type
        ELSE IF page.tag # "Ok" THEN page
        ELSE IF location.tag # "Ok" THEN location
        ELSE IF weekday.tag # "Ok" THEN weekday
        ELSE IF datetime.tag # "Ok" THEN datetime
        ELSE IF content.tag # "Ok" THEN content
        ELSE Ok([clipping_type |-> clipping_type.val,
                 book_title |-> ta.title,
                 author |-> ta.author,
                 page |-> page.val,
                 location |-> location.val,
                 datetime |-> datetime.val,
                 weekday |-> weekday.val,
                 content |-> content.val])

FromText(text) ==
    LET lines == NonBlankLines(text)
    IN  IF Len(lines) < 1 THEN Err(MissingField("book title and author"))
        ELSE LET ta == ParseTitleAndAuthor(lines[1])
             IN  IF ta.tag # "Ok" THEN ta
                 ELSE IF Len(lines) < 2 THEN Err(MissingField("metadata"))
                 ELSE FromMetadata(ta.val, lines)

(***************************************************************************)
(* parse_clippings                                                         *)
(***************************************************************************)

\* No filter: the fault of a chain that parses the blank pieces too.
KeepEveryBlock(text) == TRUE

\* .filter(|text| !text.trim().is_empty())
KeepBlock(text) == ~IsBlank(text)

\* The error numbered with enumerate's zero-based counter: the fault of a
\* forgotten index + 1.
WrapZeroBased(index, error) ==
    [variant |-> "InvalidFormat", what |-> "Failed to parse clipping",
     number |-> index, cause |-> error]

\* ParseError::InvalidFormat(format!("Failed to parse clipping #{}: {}", index + 1, error))
Wrap(index, error) ==
    [variant |-> "InvalidFormat", what |-> "Failed to parse clipping",
     number |-> index + 1, cause |-> error]

(***************************************************************************)
(* The state.                                                              *)
(*   contents  the text handed to the function under check                 *)
(*   source    what the text was written from (the inputs' own record,     *)
(*             read by no operation)                                       *)
(*   pc        "ready", "iterating" (parse_clippings is about to pull the  *)
(*             next block), "mapped" (from_text has answered for the       *)
(*             block) or "returned"                                        *)
(*   blocks    the pieces contents.split(SEPARATOR) yields                 *)
(*   next      the piece the iterator yields next                          *)
(*   index     enumerate's counter over the pieces the filter kept         *)
(*   outcome   what from_text answered for the block in hand               *)
(*   acc       the records collect() has gathered                          *)
(*   result    what the call returned, or NotYet                           *)
(***************************************************************************)
VARIABLES contents, source, pc, blocks, next, index, outcome, acc, result

vars == <<contents, source, pc, blocks, next, index, outcome, acc, result>>

NotYet == [tag |-> "NotYet"]

\* Before the call: nothing split, counted, gathered or returned.
Fresh ==
    /\ pc = "ready"
    /\ blocks = <<>>
    /\ next = 1
    /\ index = 0
    /\ outcome = NotYet
    /\ acc = <<>>
    /\ result = NotYet

\* contents.split(SEPARATOR): the iterator chain is set up.
Segment ==
    /\ pc = "ready"
    /\ pc' = "iterating"
    /\ blocks' = Split(contents, SEPARATOR)
    /\ UNCHANGED <<contents, source, next, index, outcome, acc, result>>

\* The filter drops a piece whose trimmed text is empty; enumerate does not
\* see it.
SkipBlank ==
    /\ pc = "iterating"
    /\ next <= Len(blocks)
    /\ ~KeepBlock(blocks[next])
    /\ next' = next + 1
    /\ UNCHANGED <<contents, source, pc, blocks, index, outcome, acc, result>>

\* The map closure calls from_text on a piece the filter kept.
BuildBlock ==
    /\ pc = "iterating"
    /\ next <= Len(blocks)
    /\ KeepBlock(blocks[next])
    /\ outcome' = FromText(blocks[next])
    /\ pc' = "mapped"
    /\ UNCHANGED <<contents, source, blocks, next, index, acc, result>>

\* from_text accepted the piece: collect() gathers the record and the
\* iterator moves on.
CollectEntry ==
    /\ pc = "mapped"
    /\ outcome.tag = "Ok"
    /\ acc' = Append(acc, outcome.val)
    /\ index' = index + 1
    /\ next' = next + 1
    /\ pc' = "iterating"
    /\ UNCHANGED <<contents, source, blocks, outcome, result>>

\* from_text refused the piece: map_err wraps the error with the entry's
\* number, collect() stops at this first Err, drops what it gathered and
\* returns the error.
FailEntry ==
    /\ pc = "mapped"
    /\ outcome.tag = "Err"
    /\ result' = Err(Wrap(index, outcome.err))
    /\ acc' = <<>>
    /\ pc' = "returned"
    /\ UNCHANGED <<contents, source, blocks, next, index, outcome>>

\* from_text panicked on the piece: the call never returns a value.
AbortEntry ==
    /\ pc = "mapped"
    /\ outcome.tag = "Panic"
    /\ result' = Panic
    /\ acc' = <<>>
    /\ pc' = "returned"
    /\ UNCHANGED <<contents, source, blocks, next, index, outcome>>

\* The pieces are used up: collect() returns the records.
Finish ==
    /\ pc = "iterating"
    /\ next > Len(blocks)
    /\ result' = Ok(acc)
    /\ pc' = "returned"
    /\ UNCHANGED <<contents, source, blocks, next, index, outcome, acc>>

\* One call of Clipping::from_text on contents.
Build ==
    /\ pc = "ready"
    /\ result' = FromText(contents)
    /\ pc' = "returned"
    /\ UNCHANGED <<contents, source, blocks, next, index, outcome, acc>>

\* One call of Clipping::parse_title_and_author on contents.
SplitHead ==
    /\ pc = "ready"
    /\ result' = ParseTitleAndAuthor(contents)
    /\ pc' = "returned"
    /\ UNCHANGED <<contents, source, blocks, next, index, outcome, acc>>

\* One call of Clipping::parse_page on contents.
ExtractPage ==
    /\ pc = "ready"
    /\ result' = ParsePage(contents)
    /\ pc' = "paged"
    /\ UNCHANGED <<contents, source, blocks, next, index, outcome, acc>>

\* One call of Clipping::parse_location on contents.
ExtractLocation ==
    /\ pc = "ready"
    /\ result' = ParseLocation(contents)
    /\ pc' = "located"
    /\ UNCHANGED <<contents, source, blocks, next, index, outcome, acc>>

(***************************************************************************)
(* The inputs.  An entry is written from a record of its fields in the     *)
(* layout of the export file:                                              *)
(*     <Title> (<Author>)                                                  *)
(*     - Your <Kind> on page <N> | Location <A>[-<B>] | Added on <Weekday>, <datetime> *)
(*                                                                         *)
(*     <body>                                                              *)
(* with the page, the location, the author and the body each there or not. *)
(***************************************************************************)

\* How many entries a file holds at most.
MaxEntries == 3

\* How long a title/author line is at most.
MaxLineLen == 6

\* How many pieces a text given to the segmenter is made of at most.
MaxPieces == 3

RECURSIVE Concat(_)
Concat(seqs) == IF seqs = <<>> THEN <<>> ELSE Head(seqs) \o Concat(Tail(seqs))

\* All sequences over S of length at most n.
SeqsUpTo(S, n) == UNION {[1..k -> S] : k \in 0..n}

GoodDatetimes ==
    { <<"2","6"," ","A","u","g","u","s","t"," ","2","0","2","5"," ","1","2",":","5","7",":","3","0">>,
      <<"1"," ","M","a","y"," ","2","0","2","5"," ","1",":","0","0",":","0","0">> }

U32MaxPlusOne == <<"4","2","9","4","9","6","7","2","9","6">>

Entries ==
    [ title    : { <<"B","o","o","k">>, <<"V","o","l"," ","(","1",")">> },
      author   : { None, Some(<<"A","n","n">>),
                   Some(<<"A","n","n"," ","(","t","r","."," ","B","o",")">>) },
      kind     : { KwHighlight, KwNote, KwBookmark, <<"C","l","i","p">> },
      page     : { None, Some(<<"1","2">>), Some(U32MaxDigits), Some(U32MaxPlusOne),
                   Some(<<"1", ArabicIndicThree>>) },
      location : { None,
                   Some([start |-> <<"3">>, end |-> None]),
                   Some([start |-> <<"3">>, end |-> Some(<<"4">>)]),
                   Some([start |-> U32MaxPlusOne, end |-> None]),
                   Some([start |-> <<"3">>, end |-> Some(U32MaxPlusOne)]) },
      weekday  : { DayNames[1], DayNames[7], <<"F","u","n","d","a","y">> },
      datetime : GoodDatetimes \cup { <<"2","0","2","5","-","0","8","-","2","6">> },
      body     : { None, Some(<<"T","e","x","t",".">>), Some(<<" ","a"," ","(","b",")"," ">>) } ]

\* The title/author line of an entry.
RenderHead(e) ==
    e.title \o (IF e.author.some THEN <<" ","(">> \o e.author.val \o <<")">> ELSE <<>>)

\* The metadata line of an entry.
RenderMeta(e) ==
    <<"-"," ","Y","o","u","r"," ">> \o e.kind \o <<" ","o","n"," ">>
    \o (IF e.page.some
        THEN <<"p","a","g","e"," ">> \o e.page.val \o <<" ","|"," ">>
        ELSE <<>>)
    \o (IF e.location.some
        THEN <<"L","o","c","a","t","i","o","n"," ">> \o e.location.val.start
             \o (IF e.location.val.end.some
                 THEN <<"-">> \o e.location.val.end.val
                 ELSE <<>>)
             \o <<" ","|"," ">>
        ELSE <<>>)
    \o <<"A","d","d","e","d"," ","o","n"," ">> \o e.weekday \o <<",", " ">> \o e.datetime

\* The text of an entry: its two header lines, a blank line and the body.
Render(e) ==
    RenderHead(e) \o <<"\n">> \o RenderMeta(e) \o <<"\n">> \o <<"\n">>
    \o (IF e.body.some THEN e.body.val \o <<"\n">> ELSE <<>>)

\* A highlight as the export writes it.
SampleEntry ==
    [ title |-> <<"B","o","o","k">>, author |-> Some(<<"A","n","n">>),
      kind |-> KwHighlight, page |-> Some(<<"1","2">>),
      location |-> Some([start |-> <<"3">>, end |-> Some(<<"4">>)]),
      weekday |-> DayNames[1],
      datetime |-> <<"1"," ","M","a","y"," ","2","0","2","5"," ","1",":","0","0",":","0","0">>,
      body |-> Some(<<"T","e","x","t",".">>) ]

\* The blocks a file is put together from: a highlight, a bookmark, a note
\* without its content, a highlight without a page, a highlight whose page
\* is above u32::MAX, a block of blank lines and an empty block.
SampleBlocks ==
    { Render(SampleEntry),
      Render([SampleEntry EXCEPT !.kind = KwBookmark,
                                 !.location = Some([start |-> <<"3">>, end |-> None]),
                                 !.body = None]),
      Render([SampleEntry EXCEPT !.kind = KwNote, !.body = None]),
      Render([SampleEntry EXCEPT !.page = None]),
      Render([SampleEntry EXCEPT !.page = Some(U32MaxPlusOne)]),
      <<"\n"," ","\n">>,
      <<>> }

\* The file of the given blocks: the export ends every entry with a
\* separator line.
RenderFile(bs) ==
    Concat([k \in 1..Len(bs) |-> bs[k] \o SEPARATOR \o <<"\n">>])

HeadChars == {"a", " ", "\t", "(", ")"}

Pieces == { <<"a">>, <<"=">>, <<"\n">>, SEPARATOR }

(***************************************************************************)
(* The specifications.                                                     *)
(***************************************************************************)

\* parse_clippings on a file of up to MaxEntries blocks.
Init ==
    /\ source \in SeqsUpTo(SampleBlocks, MaxEntries)
    /\ contents = RenderFile(source)
    /\ Fresh

Next ==
    \/ Segment
    \/ SkipBlank
    \/ BuildBlock
    \/ CollectEntry
    \/ FailEntry
    \/ AbortEntry
    \/ Finish

Spec == Init /\ [][Next]_vars

\* Clipping::from_text on one entry.
InitEntry ==
    /\ source \in Entries
    /\ contents = Render(source)
    /\ Fresh

NextEntry == Build

SpecEntry == InitEntry /\ [][NextEntry]_vars

\* Clipping::parse_title_and_author on every line of up to MaxLineLen characters.
InitHead ==
    /\ source \in SeqsUpTo(HeadChars, MaxLineLen)
    /\ contents = source
    /\ Fresh

NextHead == SplitHead

SpecHead == InitHead /\ [][NextHead]_vars

\* Clipping::parse_page and Clipping::parse_location on the metadata line of
\* one entry.
InitMeta ==
    /\ source \in Entries
    /\ contents = RenderMeta(source)
    /\ Fresh

NextMeta ==
    \/ ExtractPage
    \/ ExtractLocation

SpecMeta == InitMeta /\ [][NextMeta]_vars

\* The segmenter on every text of up to MaxPieces pieces.
InitSegment ==
    /\ source \in SeqsUpTo(Pieces, MaxPieces)
    /\ contents = Concat(source)
    /\ Fresh

NextSegment == Segment

SpecSegment == InitSegment /\ [][NextSegment]_vars

(***************************************************************************)
(* What the export's layout calls a well-formed entry, said of the record  *)
(* the text was written from.                                              *)
(***************************************************************************)

\* A decimal numeral.
IsNumeral(ds) == ds # <<>> /\ \A i \in 1..Len(ds) : IsAsciiDigit(ds[i])

KnownKind(e) == e.kind \in {KwHighlight, KwNote, KwBookmark}

\* The name of the entry kind a keyword stands for.
KindOf(e) ==
    CASE e.kind = KwHighlight -> "Highlight"
      [] e.kind = KwNote      -> "Note"
      [] e.kind = KwBookmark  -> "Bookmark"

KnownWeekday(e) == \E d \in 1..Len(DayNames) : DayNames[d] = e.weekday

ValidLocation(e) ==
    /\ e.location.some
    /\ IsNumeral(e.location.val.start)
    /\ e.location.val.end.some => IsNumeral(e.location.val.end.val)

\* The metadata line but for its page: kind, location, weekday and datetime.
ValidMetaButPage(e) ==
    /\ KnownKind(e)
    /\ ValidLocation(e)
    /\ KnownWeekday(e)
    /\ e.datetime \in GoodDatetimes

\* The metadata line: the page is there as a numeral, or not there.
ValidMeta(e) ==
    /\ ValidMetaButPage(e)
    /\ e.page.some => IsNumeral(e.page.val)

ValidHead(e) == e.author.some

\* A well-formed entry: a body line unless the entry is a bookmark.
WellFormed(e) ==
    /\ ValidHead(e)
    /\ ValidMeta(e)
    /\ e.body.some <=> (e.kind # KwBookmark)

\* The value a numeral is written for.
ValueOf(ds) == StripZeros(ds)

\* The blocks of contents whose trimmed text is not empty, in file order.
NonEmptyBlocks == SelectSeq(Split(contents, SEPARATOR), LAMBDA b : Trim(b) # <<>>)

\* Where the k-th boundary the segmenter placed starts in contents: after
\* the first k blocks and the k - 1 separators between them.
RECURSIVE BoundaryStart(_)
BoundaryStart(k) ==
    IF k = 0 THEN 1 - Len(SEPARATOR)
    ELSE BoundaryStart(k - 1) + Len(SEPARATOR) + Len(blocks[k])

(***************************************************************************)
(* The claims.                                                             *)
(***************************************************************************)

\* C1: in every record from_text returns, the body is absent if and only if
\* the entry kind is Bookmark: a Highlight or Note record has a body, a
\* Bookmark record has none, whatever lines follow its metadata line.
C1_BodyAbsentIffBookmark ==
    (pc = "returned" /\ result.tag = "Ok")
        => (~result.val.content.some <=> result.val.clipping_type = "Bookmark")

\* A bookmark whose block has a third non-blank line was built.
C1_Witness ==
    /\ pc = "returned"
    /\ result.tag = "Ok"
    /\ result.val.clipping_type = "Bookmark"
    /\ source.body.some
    /\ Len(NonBlankLines(contents)) = 3

\* C2: when the N-th non-empty block is the first that from_text rejects
\* (those before it were accepted), parse_clippings returns one error that
\* carries the entry number N and the cause from_text gave, and no records.
C2_FailFast ==
    pc = "returned" =>
        \A N \in 1..Len(NonEmptyBlocks) :
            ( /\ FromText(NonEmptyBlocks[N]).tag = "Err"
              /\ \A k \in 1..(N - 1) : FromText(NonEmptyBlocks[k]).tag = "Ok" )
            => /\ result.tag = "Err"
               /\ result.err.variant = "InvalidFormat"
               /\ result.err.what = "Failed to parse clipping"
               /\ result.err.number = N
               /\ result.err.cause = FromText(NonEmptyBlocks[N]).err
               /\ acc = <<>>

\* The second entry was rejected after a first that was accepted, with a
\* third entry behind it.
C2_Witness ==
    /\ pc = "returned"
    /\ result.tag = "Err"
    /\ result.err.number = 2
    /\ index = 1
    /\ Len(NonEmptyBlocks) >= 3

\* C3: a well-formed entry of any kind is accepted, and the record's title,
\* author, page, location, weekday, datetime and body are the ones written,
\* up to surrounding whitespace.
C3_RoundTrip ==
    (pc = "returned" /\ WellFormed(source)) =>
        /\ result.tag = "Ok"
        /\ result.val.clipping_type = KindOf(source)
        /\ result.val.book_title = Trim(source.title)
        /\ result.val.author = Trim(source.author.val)
        /\ result.val.page.some <=> source.page.some
        /\ source.page.some => result.val.page.val = ValueOf(source.page.val)
        /\ result.val.location.start = ValueOf(source.location.val.start)
        /\ result.val.location.end.some <=> source.location.val.end.some
        /\ source.location.val.end.some
              => result.val.location.end.val = ValueOf(source.location.val.end.val)
        /\ DayNames[result.val.weekday] = source.weekday
        /\ result.val.datetime = source.datetime
        /\ result.val.content.some <=> source.body.some
        /\ source.body.some => Trim(result.val.content.val) = Trim(source.body.val)

\* C4: a metadata line without a page token that is otherwise valid is
\* accepted, and the record's page is none.
C4_PageOptional ==
    ( /\ pc = "returned"
      /\ ~source.page.some
      /\ ValidHead(source)
      /\ ValidMetaButPage(source)
      /\ FitsU32(source.location.val.start)
      /\ source.location.val.end.some => FitsU32(source.location.val.end.val)
      /\ source.body.some )
    => /\ result.tag = "Ok"
       /\ ~result.val.page.some

\* C5: a successful parse_clippings returns one record per block whose
\* trimmed text is not empty, in file order, and a text without such a block
\* gives the empty sequence, not an error.
C5_OneRecordPerBlock ==
    pc = "returned" =>
        /\ result.tag = "Ok" =>
              /\ Len(result.val) = Len(NonEmptyBlocks)
              /\ \A k \in 1..Len(NonEmptyBlocks) :
                    /\ FromText(NonEmptyBlocks[k]).tag = "Ok"
                    /\ result.val[k] = FromText(NonEmptyBlocks[k]).val
        /\ NonEmptyBlocks = <<>> => result = Ok(<<>>)

\* Two records were returned from a file that also held a blank block
\* between its entries (besides the blank text after the last separator).
C5_Witness ==
    /\ pc = "returned"
    /\ result.tag = "Ok"
    /\ Len(result.val) = 2
    /\ Len(blocks) >= 4
    /\ \E k \in 2..(Len(blocks) - 2) : Trim(blocks[k]) = <<>>

\* C6: every boundary the segmenter places is a whole line of ten "=": it
\* starts at the start of a line and ends at the end of one.
C6_BoundaryIsSeparatorLine ==
    pc = "iterating" =>
        \A k \in 1..(Len(blocks) - 1) :
            LET b == BoundaryStart(k)
                e == b + Len(SEPARATOR)
            IN  /\ b = 1 \/ contents[b - 1] = "\n"
                /\ e > Len(contents) \/ contents[e] = "\n"

\* C7: a block of exactly two non-blank lines, a valid title/author line and
\* a valid metadata line of kind Highlight or Note, is refused with
\* MissingField("content").
C7_MissingContent ==
    ( /\ pc = "returned"
      /\ ValidHead(source)
      /\ ValidMeta(source)
      /\ source.kind \in {KwHighlight, KwNote}
      /\ ~source.body.some )
    => result = Err(MissingField("content"))

\* C8: parse_location gives start and end exactly for a line with a
\* "Location <A>-<B>" token, start alone for a line with a "Location <A>"
\* token, and InvalidFormat for a line without a location token.
C8_LocationByToken ==
    (pc = "located" /\ (source.location.some => ValidLocation(source))) =>
        IF ~source.location.some
        THEN result.tag = "Err" /\ result.err.variant = "InvalidFormat"
        ELSE /\ result.tag = "Ok"
             /\ result.val.start = ValueOf(source.location.val.start)
             /\ result.val.end.some <=> source.location.val.end.some
             /\ source.location.val.end.some
                   => result.val.end.val = ValueOf(source.location.val.end.val)

\* The breaks of the line as C9 words them: a space and a "(" with the rest
\* of the line ending in ")".
SpaceParenBreaks(line) ==
    {i \in 1..(Len(line) - 2) :
        line[i] = " " /\ line[i + 1] = "(" /\ line[Len(line)] = ")"}

ParenBreaks(line) ==
    {p \in 3..(Len(line) - 2) :
        line[p] = "(" /\ IsWhite(line[p - 1]) /\ line[Len(line)] = ")"}

C10_Total ==
    pc = "returned" => result.tag \in {"Ok", "Err"}

=============================================================================
